---- MODULE Spec2Model ----
(***************************************************************************)
(* Model of src/chatbot.py: the JoSi chat window (EnhancedChatbotGUI), its *)
(* placement-test sequencer (TestManager), the helpers around the remote   *)
(* model (call_gemini_api, gemini_check_company,                           *)
(* gemini_generate_questions) and the worker threads send_message spawns.  *)
(*                                                                         *)
(* A Python str is a sequence of chunks (TLA+ strings): a chunk is a       *)
(* whitespace run, a brace, a word or an opaque piece of text.  '' is <<>>.*)
(* A JSON value is a record [k, s, items]: k its Python type, s its text   *)
(* when it is a str element, items its elements (list), characters (a str  *)
(* that is indexed) or keys (dict).                                        *)
(***************************************************************************)
EXTENDS Integers, Sequences, FiniteSets, TLC

\* ------------------------------------------------------------- bounds
\* The inputs of a run are bounded by one of three budgets (Budgets below):
\* a long test, a long chat, or a short run in which everything may happen.
\* Non-empty messages typed in a long test: company, role, the answers and
\* one message more.
MaxSends == 13
\* Non-empty messages typed in a long chat.
MaxChatSends == 6
\* Non-empty messages typed in a short run.
MaxShortSends == 2
\* Presses of the Exit Test button in a short run.
MaxExits == 1
\* Messages the Content Filter flags in a short run or a long chat.
MaxFlagged == 1
\* Company names the Company Validator rejects in a short run or a long chat.
MaxRejected == 2
\* Messages of the chat pane the model keeps: the latest ones inserted.
PaneWindow == 2

\* ------------------------------------------------------- program constants
\* conversation_history[-5:]
HistoryWindow == 5
\* len(tech) != 5 or len(beh) != 5
QuestionsPerKind == 5
\* resp.status_code == 200
HttpOk == 200

\* ------------------------------------------------------------- str helpers
Whitespace == {" ", "\n", "\t"}

RECURSIVE LStrip(_)
LStrip(s) ==
    IF s # <<>> /\ Head(s) \in Whitespace THEN LStrip(Tail(s)) ELSE s

RECURSIVE RStrip(_)
RStrip(s) ==
    IF s # <<>> /\ s[Len(s)] \in Whitespace
    THEN RStrip(SubSeq(s, 1, Len(s) - 1))
    ELSE s

\* str.strip()
Strip(s) == RStrip(LStrip(s))

LowerChunk(c) ==
    CASE c = "VALID" -> "valid"
      [] c = "Valid" -> "valid"
      [] c = "INVALID" -> "invalid"
      [] c = "Inc" -> "inc"
      [] c = "Error" -> "error"
      [] OTHER -> c

\* str.lower()
Lower(s) == [i \in 1..Len(s) |-> LowerChunk(s[i])]

\* str.find(c): 0-based index of the first occurrence, -1 when absent
Find(s, c) ==
    IF \E i \in 1..Len(s) : s[i] = c
    THEN (CHOOSE i \in 1..Len(s) : s[i] = c /\ \A j \in 1..(i - 1) : s[j] # c) - 1
    ELSE -1

\* str.rfind(c): 0-based index of the last occurrence, -1 when absent
RFind(s, c) ==
    IF \E i \in 1..Len(s) : s[i] = c
    THEN (CHOOSE i \in 1..Len(s) : s[i] = c /\ \A j \in (i + 1)..Len(s) : s[j] # c) - 1
    ELSE -1

\* resp.startswith("Error")
StartsWithError(s) == s # <<>> /\ s[1] = "Error"

\* the last n elements of a list: lst[-n:]
LastN(lst, n) ==
    IF Len(lst) <= n THEN lst ELSE SubSeq(lst, Len(lst) - n + 1, Len(lst))

RECURSIVE JoinLines(_)
\* "\n".join(lines)
JoinLines(lines) ==
    IF lines = <<>> THEN <<>>
    ELSE IF Len(lines) = 1 THEN lines[1]
    ELSE lines[1] \o <<"\n">> \o JoinLines(Tail(lines))

\* ------------------------------------------------------ Remote Model Client
SYSTEM_PROMPT == <<"SYSTEM_PROMPT">>

\* What requests.post does: it raises (exc), or answers with a status and a
\* body; a 200 body either has candidates[0].content.parts[0].text (shape_ok,
\* text) or has not; raw is resp.text.
Http(exc, status, shape_ok, text, raw) ==
    [exc |-> exc, status |-> status, shape_ok |-> shape_ok, text |-> text, raw |-> raw]

HttpText(text) == Http(FALSE, HttpOk, TRUE, text, <<"body">>)

HttpFailures ==
    { Http(TRUE, 0, FALSE, <<>>, <<>>),
      Http(FALSE, 500, FALSE, <<>>, <<"server error">>),
      Http(FALSE, 204, FALSE, <<>>, <<>>),
      Http(FALSE, 201, TRUE, <<"VALID">>, <<"created">>),
      Http(FALSE, HttpOk, FALSE, <<>>, <<"{}">>) }

\* No POST made yet.
NoHttp == Http(FALSE, 0, FALSE, <<>>, <<>>)

\* Mutant of call_gemini_api: the status is not looked at.
call_gemini_api_any_status(http) ==
    IF http.exc THEN <<"Error", ": ", "ConnectionError">>
    ELSE IF http.shape_ok THEN http.text
         ELSE <<"Error", ": ", "'candidates'">>

\* call_gemini_api, given what the POST did
call_gemini_api(http) ==
    IF http.exc THEN <<"Error", ": ", "ConnectionError">>
    ELSE IF http.status = HttpOk
         THEN IF http.shape_ok THEN http.text
              ELSE <<"Error", ": ", "'candidates'">>
         ELSE <<"Error", " ", ToString(http.status), ": ">> \o http.raw

\* --------------------------------------------------------- Content Filter
ProfaneText == <<"damn">>

contains_profanity(text) == \E i \in 1..Len(text) : text[i] = "damn"

\* ------------------------------------------------------ Company Validator
CheckReplies ==
    { HttpText(<<"VALID">>),
      HttpText(<<" ", "Valid", "\n">>),
      HttpText(<<"INVALID">>),
      HttpText(<<"VALID", " ", "Inc">>),
      HttpText(<<"valid", "\t">>),
      HttpText(<<"\n">>),
      HttpText(<<>>) } \cup HttpFailures

\* Mutant of gemini_check_company: the response is not stripped.
gemini_check_company_unstripped(response) == Lower(response) = <<"valid">>

\* gemini_check_company, given the remote response
gemini_check_company(response) == Lower(Strip(response)) = <<"valid">>

\* ------------------------------------------------------ Question Generator
JStr(s) == [k |-> "str", s |-> s, items |-> <<>>]
JNull == [k |-> "null", s |-> "", items |-> <<>>]
JNum(s) == [k |-> "num", s |-> s, items |-> <<>>]
JArr(items) == [k |-> "arr", s |-> "", items |-> items]
JObj(keys) == [k |-> "obj", s |-> "", items |-> keys]
\* a str that is indexed: its characters
JChars(chars) == [k |-> "str", s |-> "chars", items |-> chars]

GoodTech == JArr(<<JStr("T1"), JStr("T2"), JStr("T3"), JStr("T4"), JStr("T5")>>)
GoodBeh == JArr(<<JStr("B1"), JStr("B2"), JStr("B3"), JStr("B4"), JStr("B5")>>)

FallbackTech ==
    JArr(<<JStr("Explain what OOP is."),
           JStr("What is a database index?"),
           JStr("How does a binary search work?"),
           JStr("What is an API, and how do you use it?"),
           JStr("Describe how you would optimize a slow SQL query.")>>)

FallbackBeh ==
    JArr(<<JStr("Tell me about a challenge you overcame in a team."),
           JStr("How do you handle tight deadlines?"),
           JStr("Describe a time you received critical feedback."),
           JStr("What does work-life balance mean to you?"),
           JStr("What motivates you to succeed?")>>)

\* The JSON objects the remote model answers with, by the chunk that stands
\* for the text between the braces.
JsonBody(keys, tech, beh) == [keys |-> keys, tech |-> tech, beh |-> beh]

BothKeys == {"technical_questions", "behavioral_questions"}

JsonBodies ==
    [ b \in {"good", "nokeys", "techonly", "short", "long", "null3", "empty1",
             "chars5", "obj5", "scalar"} |->
        CASE b = "good" -> JsonBody(BothKeys, GoodTech, GoodBeh)
          [] b = "nokeys" -> JsonBody({}, JNull, JNull)
          [] b = "techonly" -> JsonBody({"technical_questions"}, GoodTech, JNull)
          [] b = "short" ->
                JsonBody(BothKeys, JArr(SubSeq(GoodTech.items, 1, 4)), GoodBeh)
          [] b = "long" ->
                JsonBody(BothKeys, GoodTech, JArr(Append(GoodBeh.items, JStr("B6"))))
          [] b = "null3" ->
                JsonBody(BothKeys,
                         JArr(<<JStr("T1"), JStr("T2"), JNull, JStr("T4"), JStr("T5")>>),
                         GoodBeh)
          [] b = "empty1" ->
                JsonBody(BothKeys,
                         JArr(<<JStr(""), JStr("T2"), JStr("T3"), JStr("T4"), JStr("T5")>>),
                         GoodBeh)
          [] b = "chars5" ->
                JsonBody(BothKeys,
                         JChars(<<JStr("a"), JStr("b"), JStr("c"), JStr("d"), JStr("e")>>),
                         GoodBeh)
          [] b = "obj5" ->
                JsonBody(BothKeys,
                         JObj(<<JStr("k1"), JStr("k2"), JStr("k3"), JStr("k4"), JStr("k5")>>),
                         GoodBeh)
          [] OTHER -> JsonBody(BothKeys, JNum("5"), GoodBeh) ]

GenerateReplies ==
    { HttpText(<<"{", "good", "}">>),
      HttpText(<<"Sure", " ", "{", "good", "}", "\n">>),
      HttpText(<<>>),
      HttpText(<<"Sorry">>),
      HttpText(<<"}", " ", "{">>),
      HttpText(<<"{", "}">>),
      HttpText(<<"{", "good", "}", "{", "good", "}">>),
      HttpText(<<"{", "nokeys", "}">>),
      HttpText(<<"{", "techonly", "}">>),
      HttpText(<<"{", "short", "}">>),
      HttpText(<<"{", "long", "}">>),
      HttpText(<<"{", "scalar", "}">>),
      HttpText(<<"{", "null3", "}">>),
      HttpText(<<"{", "empty1", "}">>),
      HttpText(<<"{", "chars5", "}">>),
      HttpText(<<"{", "obj5", "}">>) } \cup HttpFailures

\* json.loads(json_str): ok is FALSE when it raises
json_loads(json_str) ==
    IF Len(json_str) = 3 /\ json_str[1] = "{" /\ json_str[3] = "}"
       /\ json_str[2] \in DOMAIN JsonBodies
    THEN [ok |-> TRUE, data |-> JsonBodies[json_str[2]]]
    ELSE IF json_str = <<"{", "}">>
         THEN [ok |-> TRUE, data |-> JsonBody({}, JNull, JNull)]
         ELSE [ok |-> FALSE, data |-> JsonBody({}, JNull, JNull)]

\* len(v) raises TypeError on a value without a length
HasLen(v) == v.k \in {"arr", "str", "obj"}

PyLen(v) == Len(v.items)

\* The span of raw_response from the first '{' to the last '}', stripped.
JsonSpan(raw_response) ==
    LET start_idx == Find(raw_response, "{")
        end_idx == RFind(raw_response, "}")
    IN  IF start_idx # -1 /\ end_idx # -1 /\ end_idx > start_idx
        THEN Strip(SubSeq(raw_response, start_idx + 1, end_idx + 1))
        ELSE <<>>

\* gemini_generate_questions, given the remote response: (tech, beh)
gemini_generate_questions(raw_response) ==
    LET parsed == json_loads(JsonSpan(raw_response))
        data == parsed.data
        raised ==
            \/ ~parsed.ok
            \/ "technical_questions" \notin data.keys
            \/ "behavioral_questions" \notin data.keys
            \/ ~HasLen(data.tech)
            \/ ~HasLen(data.beh)
            \/ PyLen(data.tech) # QuestionsPerKind
            \/ PyLen(data.beh) # QuestionsPerKind
    IN  IF raised
        THEN [tech |-> FallbackTech, beh |-> FallbackBeh]
        ELSE [tech |-> data.tech, beh |-> data.beh]

\* ------------------------------------------------------------ TestManager
\* TestManager.__init__
TestManager ==
    [ in_test |-> FALSE,
      question_index |-> 0,
      company |-> <<>>,
      role |-> <<>>,
      technical_questions |-> JArr(<<>>),
      behavioral_questions |-> JArr(<<>>),
      user_answers |-> <<>> ]

\* Python truthiness: "if q:"
Truthy(v) ==
    CASE v.k = "null" -> FALSE
      [] v.k = "num" -> v.s # "0"
      [] v.k = "str" -> v.s # ""
      [] OTHER -> v.items # <<>>

\* str(v), as an f-string renders it
PyStr(v) ==
    CASE v.k = "null" -> <<"None">>
      [] v.k = "str" -> IF v.s = "" THEN <<>> ELSE <<v.s>>
      [] OTHER -> <<v.s>>

\* Indexing with an int raises KeyError on a dict.
IndexRaises(v) == v.k = "obj"

\* TestManager.next_question: the question (JNull is None), the cursor after
\* the call, and whether indexing raised.
next_question(tm) ==
    LET total_tech == PyLen(tm.technical_questions)
        total_beh == PyLen(tm.behavioral_questions)
        idx == tm.question_index
        raised ==
            IF idx < total_tech THEN IndexRaises(tm.technical_questions)
            ELSE IF idx < total_tech + total_beh
                 THEN IndexRaises(tm.behavioral_questions)
                 ELSE FALSE
        q == IF raised THEN JNull
             ELSE IF idx < total_tech THEN tm.technical_questions.items[idx + 1]
             ELSE IF idx < total_tech + total_beh
                  THEN tm.behavioral_questions.items[idx - total_tech + 1]
                  ELSE JNull
    IN  [ raised |-> raised,
          q |-> q,
          question_index |-> IF Truthy(q) THEN idx + 1 ELSE idx ]

\* Mutant of store_answer: the answer is put in front of the earlier ones.
store_answer_in_front(tm, answer) ==
    [tm EXCEPT !.user_answers = <<answer>> \o tm.user_answers]

\* TestManager.store_answer
store_answer(tm, answer) ==
    [tm EXCEPT !.user_answers = Append(tm.user_answers, answer)]

\* TestManager.all_answers_collected
all_answers_collected(tm) ==
    LET needed == PyLen(tm.technical_questions) + PyLen(tm.behavioral_questions)
    IN  Len(tm.user_answers) >= needed

\* ------------------------------------------------------------------ state
VARIABLES
    is_processing,          \* ChatbotGUI.is_processing
    input_enabled,          \* state of input_field and send_button
    start_enabled,          \* state of start_test_btn
    exit_enabled,           \* state of exit_test_btn
    chat_display,           \* what add_message has inserted in the chat pane
    conversation_history,   \* EnhancedChatbotGUI.conversation_history
    sessions,               \* every TestManager object constructed so far
    test_manager,           \* self.test_manager: an index into sessions
    workers,                \* the threads send_message has started and that run
    after_queue,            \* callbacks posted with self.after(0, ...)
    api_log,                \* the calls made to call_gemini_api, in order
    budget                  \* what the bounds still allow the inputs of this run

vars ==
    << is_processing, input_enabled, start_enabled, exit_enabled, chat_display,
       conversation_history, sessions, test_manager, workers, after_queue, api_log,
       budget >>

\* The state a background worker must leave to the foreground thread.
interactive ==
    << is_processing, input_enabled, start_enabled, exit_enabled, chat_display,
       conversation_history, sessions, test_manager >>

\* ------------------------------------------------------------- chat pane
Msg(sender, message, is_error) ==
    [sender |-> sender, message |-> message, is_error |-> is_error]

StartMsg == Msg("JoSi", <<"Starting placement test!">>, FALSE)
ExitMsg == Msg("JoSi", <<"Exited test mode. How else can I help you?">>, FALSE)
RejectMsg == Msg("JoSi", <<"That company is **NOT recognized**">>, FALSE)
RoleMsg(user_input) ==
    Msg("JoSi", <<"Great! Now enter the role you're applying for at ">> \o user_input, FALSE)
BeginMsg == Msg("JoSi", <<"Excellent! Let's begin with the first question:">>, FALSE)
QuestionMsg(index, question) ==
    Msg("JoSi", <<"**Q", ToString(index), ":** ">> \o PyStr(question), FALSE)
RefusalMsg == Msg("JoSi", <<"Sorry, I can't respond to that language.">>, TRUE)
FlowErrorMsg == Msg("JoSi", <<"Error in test flow: ", "KeyError">>, TRUE)
Refusal == <<"I'm sorry, but I cannot respond to that.">>

\* ChatbotGUI.add_message
add_message(pane, msg) == LastN(Append(pane, msg), PaneWindow)

\* ------------------------------------------------------------- call log
Call(fn, sid, text, snap, seen, valid) ==
    [fn |-> fn, sid |-> sid, text |-> text, snap |-> snap, seen |-> seen, valid |-> valid]

\* --------------------------------------------------------------- workers
\* A thread started by send_message: its target and argument, where it is
\* (pc), its locals (tm: the session handle_test_flow took, 0 before; http,
\* resp: what the POST of its last remote call did and what call_gemini_api
\* returned), and what was current when it was started (seen: the length of
\* the history before its message; submitted: the current session).
Worker(id, target, pc, user_text, tm, seen) ==
    [id |-> id, target |-> target, pc |-> pc, user_text |-> user_text, tm |-> tm,
     seen |-> seen, submitted |-> test_manager, http |-> NoHttp, resp |-> <<>>]

Step(w, pc) == workers' = (workers \ {w}) \cup {[w EXCEPT !.pc = pc]}

\* call_gemini_api returns to the worker, which goes on to pc
Return(w, pc, http) ==
    workers' = (workers \ {w}) \cup
        {[w EXCEPT !.pc = pc, !.http = http, !.resp = call_gemini_api(http)]}

\* ---------------------------------------------------------------- bounds
\* sends: non-empty messages typed; chats: those of them accepted outside a
\* test; exits: presses of Exit Test; flagged: messages the Content Filter
\* flags; rejected: company names the Company Validator rejects; sent: the
\* messages typed so far (each message typed is a new text).
Budget(sends, chats, exits, flagged, rejected) ==
    [sends |-> sends, chats |-> chats, exits |-> exits, flagged |-> flagged,
     rejected |-> rejected, sent |-> 0]

Budgets ==
    { Budget(MaxSends, 0, 0, 0, 0),
      Budget(MaxChatSends, MaxChatSends, 0, MaxFlagged, MaxRejected),
      Budget(MaxShortSends, MaxShortSends, MaxExits, MaxFlagged, MaxRejected) }

\* ------------------------------------------------------------------ Init
Init ==
    /\ is_processing = FALSE
    /\ input_enabled = TRUE
    /\ start_enabled = TRUE
    /\ exit_enabled = FALSE
    /\ chat_display = <<Msg("JoSi", <<"### Welcome to JoSi!">>, FALSE)>>
    /\ conversation_history = <<>>
    /\ sessions = <<TestManager>>
    /\ test_manager = 1
    /\ workers = {}
    /\ after_queue = <<>>
    /\ api_log = <<>>
    /\ budget \in Budgets

\* ------------------------------------------------- bounds on the inputs
\* What the user may have typed in the input field: nothing, blanks, the next
\* message (each message typed is a new text), with or without blanks around
\* it, or a text the Content Filter flags.
NextText == <<ToString(budget.sent + 1)>>

Typed ==
    { <<>>, <<" ", "\n">>, NextText, <<" ">> \o NextText \o <<"\n">>,
      ProfaneText \o <<"\n">> }

\* ChatReplies, EvaluateReplies: what the POST does for a chat prompt and
\* for an evaluation prompt.
ChatReplies ==
    { HttpText(<<"Hello">>), Http(FALSE, 500, FALSE, <<>>, <<"server error">>) }

EvaluateReplies ==
    { HttpText(<<"Feedback">>), Http(TRUE, 0, FALSE, <<>>, <<>>) }

\* ---------------------------------------------------- foreground: buttons
\* EnhancedChatbotGUI.start_test
start_test ==
    /\ start_enabled
    /\ sessions' = [sessions EXCEPT ![test_manager].in_test = TRUE]
    /\ chat_display' = add_message(chat_display, StartMsg)
    /\ exit_enabled' = TRUE
    /\ start_enabled' = FALSE
    /\ UNCHANGED << is_processing, input_enabled, conversation_history, test_manager,
                    workers, after_queue, api_log, budget >>

\* Mutant of exit_test_session: exit_test keeps the session it has.
exit_test_session_kept == UNCHANGED << sessions, test_manager >>

\* exit_test, line 538: self.test_manager = TestManager()
exit_test_session ==
    /\ sessions' = Append(sessions, TestManager)
    /\ test_manager' = Len(sessions) + 1

\* exit_test, lines 539-541: the buttons, then the message, on the pane given
exit_test_controls(pane) ==
    /\ exit_enabled' = FALSE
    /\ start_enabled' = TRUE
    /\ chat_display' = add_message(pane, ExitMsg)

\* EnhancedChatbotGUI.exit_test, run by the main loop as one handler
exit_test_on(pane) ==
    /\ exit_test_session
    /\ exit_test_controls(pane)

\* EnhancedChatbotGUI.exit_test, as the command of exit_test_btn
exit_test ==
    /\ exit_enabled
    /\ budget.exits > 0
    /\ budget' = [budget EXCEPT !.exits = @ - 1]
    /\ exit_test_on(chat_display)
    /\ UNCHANGED << is_processing, input_enabled, conversation_history, workers,
                    after_queue, api_log >>

\* ---------------------------------------------------------- foreground: send
\* ChatbotGUI.enable_input
enable_input ==
    /\ is_processing' = FALSE
    /\ input_enabled' = TRUE

\* Mutant of SendBlocked: send_message without its is_processing check.
SendBlocked_never == FALSE

\* send_message, line 614: a send while a message is being processed
SendBlocked == is_processing

\* Mutant of send_flagged: the text is appended to the history (line 631)
\* before the Content Filter is asked.
send_flagged_recorded(user_text) ==
    /\ chat_display' =
          add_message(add_message(chat_display, Msg("You", user_text, FALSE)), RefusalMsg)
    /\ conversation_history' =
          Append(conversation_history, [sender |-> "user", text |-> user_text])
    /\ enable_input
    /\ UNCHANGED << start_enabled, exit_enabled, sessions, test_manager, workers,
                    after_queue, api_log >>

\* send_message, lines 624-628: the Content Filter flags the text
send_flagged(user_text) ==
    /\ chat_display' =
          add_message(add_message(chat_display, Msg("You", user_text, FALSE)), RefusalMsg)
    /\ enable_input
    /\ UNCHANGED << start_enabled, exit_enabled, conversation_history, sessions,
                    test_manager, workers, after_queue, api_log >>

\* send_message, lines 630-643: the text is accepted and a worker started
send_accepted(user_text) ==
    /\ chat_display' = add_message(chat_display, Msg("You", user_text, FALSE))
    /\ conversation_history' =
          Append(conversation_history, [sender |-> "user", text |-> user_text])
    /\ is_processing' = TRUE
    /\ input_enabled' = FALSE
    /\ workers' = workers \cup
          { Worker(budget.sent + 1,
                   IF sessions[test_manager].in_test THEN "test" ELSE "normal",
                   "start", user_text, 0, Len(conversation_history)) }
    /\ UNCHANGED << start_enabled, exit_enabled, sessions, test_manager, after_queue,
                    api_log >>

\* EnhancedChatbotGUI.send_message, with typed in the input field
send_message(typed) ==
    LET user_text == Strip(typed)
    IN  IF SendBlocked THEN UNCHANGED vars
        ELSE IF user_text = <<>> THEN UNCHANGED vars
        ELSE /\ budget.sends > 0
             /\ IF contains_profanity(user_text)
                THEN /\ budget.flagged > 0
                     /\ budget' = [budget EXCEPT !.sends = @ - 1, !.sent = @ + 1,
                                                 !.flagged = @ - 1]
                     /\ send_flagged(user_text)
                ELSE IF sessions[test_manager].in_test
                THEN /\ budget' = [budget EXCEPT !.sends = @ - 1, !.sent = @ + 1]
                     /\ send_accepted(user_text)
                ELSE /\ budget.chats > 0
                     /\ budget' = [budget EXCEPT !.sends = @ - 1, !.sent = @ + 1,
                                                 !.chats = @ - 1]
                     /\ send_accepted(user_text)

\* The Tk main loop runs the next callback posted with self.after(0, ...).
run_after ==
    /\ after_queue # <<>>
    /\ after_queue' = Tail(after_queue)
    /\ LET cb == Head(after_queue)
       IN  IF cb.fn = "add_message"
           THEN /\ chat_display' = add_message(chat_display, cb.msg)
                /\ UNCHANGED << is_processing, input_enabled >>
           ELSE /\ enable_input
                /\ UNCHANGED chat_display
    /\ UNCHANGED << start_enabled, exit_enabled, conversation_history, sessions,
                    test_manager, workers, api_log, budget >>

After(fn, msg) == [fn |-> fn, msg |-> msg]

\* ------------------------------------------------- worker: normal message
\* get_response, lines 596-606: the prompt sent for `prompt`
final_text(history, prompt) ==
    LET last_msgs ==
            JoinLines([i \in 1..Len(LastN(history, HistoryWindow)) |->
                          <<LastN(history, HistoryWindow)[i].sender, ": ">>
                              \o LastN(history, HistoryWindow)[i].text])
    IN  SYSTEM_PROMPT \o <<"\n\n">> \o last_msgs \o <<"\n", "User", ": ">> \o prompt

\* process_normal_message, lines 659-661, on the response get_response returned
normal_result(w, resp) ==
    /\ conversation_history' =
          Append(conversation_history, [sender |-> "JoSi", text |-> resp])
    /\ after_queue' =
          Append(after_queue, After("add_message", Msg("JoSi", resp, StartsWithError(resp))))

\* process_normal_message -> get_response, up to the call of call_gemini_api
normal_begin(w) ==
    /\ w.target = "normal" /\ w.pc = "start"
    /\ IF contains_profanity(w.user_text)
       THEN /\ normal_result(w, Refusal)
            /\ Step(w, "fin")
            /\ UNCHANGED api_log
       ELSE /\ api_log' =
                  Append(api_log,
                         Call("chat", 0, final_text(conversation_history, w.user_text),
                              TestManager, w.seen, FALSE))
            /\ Step(w, "n_call")
            /\ UNCHANGED << conversation_history, after_queue >>
    /\ UNCHANGED << is_processing, input_enabled, start_enabled, exit_enabled,
                    chat_display, sessions, test_manager, budget >>

\* process_normal_message, once call_gemini_api has returned
normal_return(w) ==
    /\ w.target = "normal" /\ w.pc = "n_call"
    /\ \E http \in ChatReplies :
          /\ normal_result(w, call_gemini_api(http))
          /\ Return(w, "fin", http)
    /\ UNCHANGED << is_processing, input_enabled, start_enabled, exit_enabled,
                    chat_display, sessions, test_manager, api_log, budget >>

\* Mutant of worker_finally: the thread ends without posting enable_input.
worker_finally_silent(w) ==
    /\ w.pc = "fin"
    /\ workers' = workers \ {w}
    /\ UNCHANGED << is_processing, input_enabled, start_enabled, exit_enabled,
                    chat_display, conversation_history, sessions, test_manager,
                    after_queue, api_log, budget >>

\* process_*_message, finally: self.after(0, self.enable_input); the thread ends
worker_finally(w) ==
    /\ w.pc = "fin"
    /\ after_queue' = Append(after_queue, After("enable_input", ExitMsg))
    /\ workers' = workers \ {w}
    /\ UNCHANGED << is_processing, input_enabled, start_enabled, exit_enabled,
                    chat_display, conversation_history, sessions, test_manager, api_log,
                    budget >>

\* --------------------------------------------------- worker: test message
\* Every step of the test worker leaves these alone.
TestFrame == UNCHANGED << is_processing, input_enabled, conversation_history >>



\* handle_test_flow, lines 547-551: tm = self.test_manager, no company yet:
\* tm.set_company(user_input) calls the remote model
check_begin(w) ==
    /\ w.target = "test" /\ w.pc = "start"
    /\ sessions[test_manager].company = <<>>
    /\ workers' = (workers \ {w}) \cup {[w EXCEPT !.pc = "t_check", !.tm = test_manager]}
    /\ TestFrame
    /\ UNCHANGED << start_enabled, exit_enabled, chat_display, sessions, test_manager,
                    after_queue, api_log, budget >>

\* Mutant of company_checked: the company is stored whatever the Company
\* Validator returned.
company_checked_unconditionally(w, valid) ==
    /\ sessions' = [sessions EXCEPT ![w.tm].company = w.user_text]
    /\ chat_display' = add_message(chat_display, RoleMsg(w.user_text))
    /\ UNCHANGED budget

\* Mutant of company_checked: the input is stored as the company before the
\* answer of the Company Validator is looked at.
company_checked_stored_first(w, valid) ==
    /\ sessions' = [sessions EXCEPT ![w.tm].company = w.user_text]
    /\ IF ~valid
       THEN /\ budget.rejected > 0
            /\ budget' = [budget EXCEPT !.rejected = @ - 1]
            /\ chat_display' = add_message(chat_display, RejectMsg)
       ELSE /\ chat_display' = add_message(chat_display, RoleMsg(w.user_text))
            /\ UNCHANGED budget

\* handle_test_flow, lines 552-561, on what the Company Validator returned
company_checked(w, valid) ==
    IF ~valid
    THEN /\ budget.rejected > 0
         /\ budget' = [budget EXCEPT !.rejected = @ - 1]
         /\ chat_display' = add_message(chat_display, RejectMsg)
         /\ UNCHANGED sessions
    ELSE /\ sessions' = [sessions EXCEPT ![w.tm].company = w.user_text]
         /\ chat_display' = add_message(chat_display, RoleMsg(w.user_text))
         /\ UNCHANGED budget

\* handle_test_flow, lines 551-561, once call_gemini_api has returned
check_return(w) ==
    /\ w.target = "test" /\ w.pc = "t_check"
    /\ \E http \in CheckReplies :
          LET valid == gemini_check_company(call_gemini_api(http))
          IN  /\ company_checked(w, valid)
              /\ api_log' =
                    Append(api_log,
                           Call("check", w.tm, w.user_text, sessions[w.tm], w.seen, valid))
              /\ Return(w, "fin", http)
    /\ TestFrame
    /\ UNCHANGED << start_enabled, exit_enabled, test_manager, after_queue >>

\* handle_test_flow, lines 564-566: company set, no role yet: tm.set_role and
\* tm.generate_test_questions up to the call of call_gemini_api
role_begin(w) ==
    /\ w.target = "test" /\ w.pc = "start"
    /\ sessions[test_manager].company # <<>>
    /\ sessions[test_manager].role = <<>>
    /\ sessions' = [sessions EXCEPT ![test_manager].role = w.user_text]
    /\ api_log' =
          Append(api_log,
                 Call("generate", test_manager, w.user_text, sessions'[test_manager],
                      w.seen, FALSE))
    /\ workers' = (workers \ {w}) \cup {[w EXCEPT !.pc = "t_generate", !.tm = test_manager]}
    /\ TestFrame
    /\ UNCHANGED << start_enabled, exit_enabled, chat_display, test_manager, after_queue,
                    budget >>

\* generate_test_questions, lines 219-221, and handle_test_flow, line 567
role_return(w) ==
    /\ w.target = "test" /\ w.pc = "t_generate"
    /\ \E http \in GenerateReplies :
          LET qs == gemini_generate_questions(call_gemini_api(http))
          IN  /\ sessions' = [sessions EXCEPT ![w.tm].technical_questions = qs.tech,
                                              ![w.tm].behavioral_questions = qs.beh]
              /\ Return(w, "ask", http)
    /\ chat_display' = add_message(chat_display, BeginMsg)
    /\ TestFrame
    /\ UNCHANGED << start_enabled, exit_enabled, test_manager, after_queue, api_log,
                    budget >>

\* handle_test_flow, lines 571-579: company and role set: store the answer,
\* then evaluate (up to the call of call_gemini_api) or ask the next question
answer_begin(w) ==
    /\ w.target = "test" /\ w.pc = "start"
    /\ sessions[test_manager].company # <<>>
    /\ sessions[test_manager].role # <<>>
    /\ LET stored == store_answer(sessions[test_manager], w.user_text)
       IN  /\ sessions' = [sessions EXCEPT ![test_manager] = stored]
           /\ IF all_answers_collected(stored)
              THEN /\ api_log' =
                         Append(api_log,
                                Call("evaluate", test_manager, <<>>, stored, w.seen, FALSE))
                   /\ workers' = (workers \ {w}) \cup
                         {[w EXCEPT !.pc = "t_evaluate", !.tm = test_manager]}
              ELSE /\ UNCHANGED api_log
                   /\ workers' = (workers \ {w}) \cup
                         {[w EXCEPT !.pc = "ask", !.tm = test_manager]}
    /\ TestFrame
    /\ UNCHANGED << start_enabled, exit_enabled, chat_display, test_manager, after_queue,
                    budget >>

\* EnhancedChatbotGUI.ask_next_question, on self.test_manager: the next
\* question is shown, or (None) the evaluation starts, or indexing raises and
\* process_test_message posts the error
ask_next_question(w) ==
    /\ w.target = "test" /\ w.pc = "ask"
    /\ LET cur == sessions[test_manager]
           nq == next_question(cur)
       IN  IF nq.raised
           THEN /\ after_queue' = Append(after_queue, After("add_message", FlowErrorMsg))
                /\ Step(w, "fin")
                /\ UNCHANGED << sessions, chat_display, api_log >>
           ELSE IF nq.q = JNull
           THEN /\ api_log' =
                      Append(api_log,
                             Call("evaluate", test_manager, <<>>, cur, w.seen, FALSE))
                /\ Step(w, "a_evaluate")
                /\ UNCHANGED << sessions, chat_display, after_queue >>
           ELSE /\ sessions' =
                      [sessions EXCEPT ![test_manager].question_index = nq.question_index]
                /\ chat_display' =
                      add_message(chat_display, QuestionMsg(nq.question_index, nq.q))
                /\ Step(w, "fin")
                /\ UNCHANGED << after_queue, api_log >>
    /\ TestFrame
    /\ UNCHANGED << start_enabled, exit_enabled, test_manager, budget >>

\* lines 575-577 and 585-587, once call_gemini_api has returned: the result
\* is shown and exit_test called, which first replaces self.test_manager
evaluated(w) ==
    /\ \E http \in EvaluateReplies :
          /\ chat_display' =
                add_message(chat_display, Msg("JoSi", call_gemini_api(http), FALSE))
          /\ Return(w, "exiting", http)
    /\ exit_test_session
    /\ TestFrame
    /\ UNCHANGED << start_enabled, exit_enabled, after_queue, api_log, budget >>

\* handle_test_flow, lines 575-577
answer_evaluated(w) ==
    /\ w.target = "test" /\ w.pc = "t_evaluate"
    /\ evaluated(w)

\* ask_next_question, lines 585-587
ask_evaluated(w) ==
    /\ w.target = "test" /\ w.pc = "a_evaluate"
    /\ evaluated(w)

\* exit_test called by the worker, lines 539-541: the widget calls of a thread
\* other than the main one are run by the main loop, between its own handlers
exit_test_in_worker(w) ==
    /\ w.target = "test" /\ w.pc = "exiting"
    /\ exit_test_controls(chat_display)
    /\ Step(w, "fin")
    /\ TestFrame
    /\ UNCHANGED << sessions, test_manager, after_queue, api_log, budget >>

\* ------------------------------------------------------------------ Next
Foreground ==
    \/ start_test
    \/ exit_test
    \/ \E typed \in Typed : send_message(typed)
    \/ run_after

Background ==
    \E w \in workers :
        \/ normal_begin(w)
        \/ normal_return(w)
        \/ check_begin(w)
        \/ check_return(w)
        \/ role_begin(w)
        \/ role_return(w)
        \/ answer_begin(w)
        \/ ask_next_question(w)
        \/ answer_evaluated(w)
        \/ ask_evaluated(w)
        \/ exit_test_in_worker(w)
        \/ worker_finally(w)

Next == Foreground \/ Background

Spec == Init /\ [][Next]_vars

\* A started thread runs on and its remote call returns; the Tk main loop
\* runs the callbacks posted with self.after.
FairSpec == Spec /\ WF_vars(Background) /\ WF_vars(run_after)

\* ----------------------------------------------------------------------
\* Properties
\* ----------------------------------------------------------------------
Last(seq) == seq[Len(seq)]

\* A QuestionSet: two lists of exactly 5 strings.
IsFiveStrings(v) ==
    /\ v.k = "arr"
    /\ Len(v.items) = QuestionsPerKind
    /\ \A i \in 1..Len(v.items) : v.items[i].k = "str" /\ v.items[i].items = <<>>

IsQuestionSet(tm) ==
    IsFiveStrings(tm.technical_questions) /\ IsFiveStrings(tm.behavioral_questions)

\* The k-th question of the fixed order [technical 0..4, behavioral 0..4].
KthQuestion(tm, k) ==
    IF k <= QuestionsPerKind
    THEN tm.technical_questions.items[k]
    ELSE tm.behavioral_questions.items[k - QuestionsPerKind]

\* The worker w is, after the step, at pc.
MovesTo(w, pc) == \E w2 \in workers' : w2.id = w.id /\ w2.pc = pc

\* The company of tm was accepted by the Company Validator for session sid.
Validated(tm, sid) ==
    /\ tm.company # <<>>
    /\ \E j \in DOMAIN api_log :
          /\ api_log[j].fn = "check"
          /\ api_log[j].valid
          /\ api_log[j].sid = sid
          /\ api_log[j].text = tm.company

\* C1: in a test session whose question set is 5 + 5 strings, the question a
\* worker shows is question k = (answers stored so far) + 1 of the fixed order
\* [technical 0..4, behavioral 0..4], it is labelled Qk and k <= 10; and when a
\* worker starts the evaluation, the session it evaluates is its own, with all
\* 10 questions shown (cursor 10) and 10 answers stored.
C1_QuestionShown(w) ==
    (/\ w.pc = "ask"
     /\ MovesTo(w, "fin")
     /\ chat_display' # chat_display
     /\ IsQuestionSet(sessions[w.tm]))
    => LET k == Len(sessions[w.tm].user_answers) + 1
       IN  /\ k <= 2 * QuestionsPerKind
           /\ Last(chat_display') = QuestionMsg(k, KthQuestion(sessions[w.tm], k))

C1_EvaluationStarts(w) ==
    \A w2 \in workers' :
        (/\ w2.id = w.id
         /\ w.pc \in {"start", "ask"}
         /\ w2.pc \in {"t_evaluate", "a_evaluate"}
         /\ IsQuestionSet(sessions'[w2.tm]))
        => /\ Last(api_log').sid = w2.tm
           /\ Last(api_log').snap.question_index = 2 * QuestionsPerKind
           /\ Len(Last(api_log').snap.user_answers) = 2 * QuestionsPerKind

C1_TenQuestionsInOrder ==
    [][\A w \in workers : C1_QuestionShown(w) /\ C1_EvaluationStarts(w)]_vars

\* C2: in every session, a role is set only if a company is set, a company is
\* set only to an input the Company Validator accepted for that session, and
\* questions are generated (and a role stored) only with the company set.
C2_CompanyBeforeRole ==
    /\ \A i \in DOMAIN sessions :
          /\ sessions[i].role # <<>> => sessions[i].company # <<>>
          /\ sessions[i].company # <<>> => Validated(sessions[i], i)
          /\ sessions[i].technical_questions # JArr(<<>>) => sessions[i].role # <<>>
    /\ \A j \in DOMAIN api_log :
          api_log[j].fn = "generate" =>
              /\ Validated(api_log[j].snap, api_log[j].sid)
              /\ api_log[j].snap.role = api_log[j].text

\* C2 witness: a session holds a validated company, a role and its questions.
C2_Witness ==
    \E i \in DOMAIN sessions :
        /\ sessions[i].company # <<>>
        /\ sessions[i].role # <<>>
        /\ sessions[i].technical_questions # JArr(<<>>)

\* The place of the user turn with this text in the conversation history: the
\* history records the messages in the order they were typed.
TurnOf(text) ==
    CHOOSE i \in DOMAIN conversation_history :
        conversation_history[i] = [sender |-> "user", text |-> text]

EvaluationsOf(sid) ==
    {j \in DOMAIN api_log : api_log[j].fn = "evaluate" /\ api_log[j].sid = sid}

\* C3 (state part): a session that has received 10 answers has been evaluated
\* exactly once, with company, role, both question lists and its 10 answers,
\* in the order they were typed, in the prompt.
C3_EvaluatedOnce ==
    \A i \in DOMAIN sessions :
        Len(sessions[i].user_answers) >= 2 * QuestionsPerKind =>
            /\ Cardinality(EvaluationsOf(i)) = 1
            /\ \A j \in EvaluationsOf(i) :
                  /\ api_log[j].snap = sessions[i]
                  /\ Len(api_log[j].snap.user_answers) = 2 * QuestionsPerKind
                  /\ api_log[j].snap.company # <<>>
                  /\ api_log[j].snap.role # <<>>
                  /\ \A a, b \in 1..Len(api_log[j].snap.user_answers) :
                        a < b => TurnOf(api_log[j].snap.user_answers[a])
                                    < TurnOf(api_log[j].snap.user_answers[b])
                  /\ \A a \in 1..Len(api_log[j].snap.user_answers) :
                        TurnOf(api_log[j].snap.role)
                            < TurnOf(api_log[j].snap.user_answers[a])

\* C3 (step part): the step that ends the evaluation started by the 10th
\* answer replaces the session by a new one that is fresh and not in test mode.
C3_ThenReplaced ==
    \A w \in workers :
        (w.pc = "t_evaluate" /\ MovesTo(w, "exiting")) =>
            /\ test_manager' \notin DOMAIN sessions
            /\ sessions'[test_manager'] = TestManager
            /\ ~sessions'[test_manager'].in_test
            /\ \A i \in DOMAIN sessions : sessions'[i] = sessions[i]

\* C3: for a session driven by 10 answers, evaluate_answers is called exactly
\* once, at the 10th answer, on company, role, questions and the 10 answers in
\* order, and the session is then replaced by a fresh one not in test mode.
C3_TenAnswersOneEvaluation == []C3_EvaluatedOnce /\ [][C3_ThenReplaced]_vars

\* C3 witness: a session got its 10 answers, was evaluated and replaced.
C3_Witness ==
    /\ workers = {}
    /\ \E i \in DOMAIN sessions :
          /\ Len(sessions[i].user_answers) = 2 * QuestionsPerKind
          /\ IsQuestionSet(sessions[i])
          /\ i # test_manager

\* C4: when the worker of a normal-mode message gets its response, an
\* Error-prefixed response is posted unmodified as an error and the history
\* gains no assistant turn (it ends with the user turn); any other response is
\* appended to the history as the assistant turn, after the user turn.
C4_Response(w) ==
    (w.target = "normal" /\ w.pc = "n_call" /\ MovesTo(w, "fin")) =>
        LET posted == Last(after_queue').msg
        IN  /\ Last(conversation_history).sender = "user"
            /\ Last(conversation_history).text = w.user_text
            /\ IF StartsWithError(posted.message)
               THEN /\ posted.is_error
                    /\ conversation_history' = conversation_history
               ELSE /\ ~posted.is_error
                    /\ conversation_history' =
                          Append(conversation_history,
                                 [sender |-> "JoSi", text |-> posted.message])

C4_NoAssistantTurnOnError == [][\A w \in workers : C4_Response(w)]_vars

\* The prompt the spec describes: the system instructions, the last 5 of the
\* turns recorded before the message, one line per turn, then the new text.
ClaimedPrompt(before, text) ==
    LET recent == LastN(before, HistoryWindow)
    IN  SYSTEM_PROMPT \o <<"\n\n">>
           \o JoinLines([i \in 1..Len(recent) |->
                            <<recent[i].sender, ": ">> \o recent[i].text])
           \o <<"\n", "User", ": ">> \o text

\* C5: the prompt sent for a normal-mode message is the system instructions,
\* the (at most) 5 most recent turns recorded before the message, then the
\* new user text once, as the final turn.
C5_Prompt(w) ==
    (w.target = "normal" /\ w.pc = "start" /\ MovesTo(w, "n_call")) =>
        Last(api_log').text =
            ClaimedPrompt(SubSeq(conversation_history, 1, w.seen), w.user_text)

C5_PromptIsLastFiveThenText == [][\A w \in workers : C5_Prompt(w)]_vars

\* A message the Content Filter flags gets past the is_processing check.
FlaggedSubmitted ==
    /\ ~is_processing
    /\ \E typed \in Typed :
          contains_profanity(Strip(typed)) /\ send_message(typed)

\* C6: a submitted message the Content Filter flags is answered with the
\* fixed refusal, starts no worker, makes no remote call, leaves the history
\* and every test session as they are, and leaves input enabled.
C6_Flagged ==
    FlaggedSubmitted =>
        /\ Last(chat_display') = RefusalMsg
        /\ workers' = workers
        /\ api_log' = api_log
        /\ after_queue' = after_queue
        /\ conversation_history' = conversation_history
        /\ sessions' = sessions
        /\ test_manager' = test_manager
        /\ ~is_processing'
        /\ input_enabled'

C6_FlaggedChangesNothing == [][C6_Flagged]_vars

\* C6 witness: the refusal has just been shown, in test mode, with earlier
\* turns in the history.
C6_Witness ==
    /\ Last(chat_display) = RefusalMsg
    /\ sessions[test_manager].in_test
    /\ sessions[test_manager].company # <<>>
    /\ conversation_history # <<>>
    /\ ~is_processing

\* C7: the questions gemini_generate_questions returns (stored in the session
\* by generate_test_questions) are exactly 5 technical strings and 5
\* behavioral strings.
C7_FivePlusFiveStrings ==
    \A i \in DOMAIN sessions :
        sessions[i].technical_questions # JArr(<<>>) => IsQuestionSet(sessions[i])

\* C8: evaluate_answers is only ever called on a session that holds a
\* validated company, a role, a 5+5 question set and exactly 10 answers.
C8_EvaluatesCompleteSessions ==
    \A j \in DOMAIN api_log :
        api_log[j].fn = "evaluate" =>
            /\ Validated(api_log[j].snap, api_log[j].sid)
            /\ api_log[j].snap.role # <<>>
            /\ PyLen(api_log[j].snap.technical_questions) = QuestionsPerKind
            /\ PyLen(api_log[j].snap.behavioral_questions) = QuestionsPerKind
            /\ Len(api_log[j].snap.user_answers) = 2 * QuestionsPerKind

\* C9: a step of a background worker leaves the interactive state (history,
\* test sessions, the current session, input and buttons, the chat pane) as
\* it is: only the foreground thread writes it.
C9_WorkersWriteNothing == [][Background => UNCHANGED interactive]_vars

\* The workers that are inside call_gemini_api.
InCall == {w \in workers : w.pc \in {"n_call", "t_check", "t_generate", "t_evaluate",
                                      "a_evaluate"}}

\* C10: at most one worker exists, is_processing is true (and input disabled)
\* as long as it exists, and at most one remote call is in flight.
C10_OneWorker ==
    /\ Cardinality(workers) <= 1
    /\ workers # {} => is_processing /\ ~input_enabled
    /\ Cardinality(InCall) <= 1

\* C10 witness: a worker is inside a remote call, after an earlier message.
C10_Witness ==
    /\ InCall # {}
    /\ is_processing
    /\ budget.sent > 1

\* C11: once exit_test has replaced the session (the current session is one
\* that exit_test constructed), the current session is fresh for as long as no
\* start action has put it in test mode: not in test mode, company and role
\* unset, no questions, no answers, cursor 0.
C11_FreshUntilStart ==
    (test_manager > 1 /\ ~sessions[test_manager].in_test) =>
        sessions[test_manager] = TestManager

\* C12: as long as the worker of an accepted message runs, is_processing is
\* true and input disabled; and every accepted message is eventually followed
\* by a state in which its worker has ended, is_processing is false and the
\* input field and send button are enabled.
C12_InputReenabled ==
    /\ [](workers # {} => is_processing /\ ~input_enabled)
    /\ (workers # {}) ~> (workers = {} /\ ~is_processing /\ input_enabled)

\* C12 witness: input is enabled again after a message whose handler raised.
C12_Witness ==
    /\ workers = {}
    /\ after_queue = <<>>
    /\ ~is_processing
    /\ input_enabled
    /\ Last(chat_display) = FlowErrorMsg

\* No step removes a turn from the conversation history.
C13_HistoryOnlyGrows ==
    [][/\ Len(conversation_history') >= Len(conversation_history)
       /\ SubSeq(conversation_history', 1, Len(conversation_history))
             = conversation_history]_vars

\* C13: the user's exit action, which resets the test session state, resets
\* the conversation history too: after it the history is empty.
C13_ExitResetsHistory == [][exit_test => conversation_history' = <<>>]_vars

\* The check calls made for session sid, in order.
ChecksOf(sid) ==
    SelectSeq(api_log, LAMBDA c : c.fn = "check" /\ c.sid = sid)

\* C14 (the answer of the Company Validator): for a session in test mode that
\* awaits a company, an input the validator returns false for leaves every
\* session as it is (company and role unset, no questions, no answers, cursor
\* 0, in test mode) and the rejection message is emitted; an input it returns
\* true for is stored as the company, nothing else changes, and the message
\* emitted asks for the role.
C14_Checked(w) ==
    (w.pc = "t_check" /\ MovesTo(w, "fin") /\ sessions[w.tm].in_test) =>
        /\ Last(api_log').fn = "check"
        /\ Last(api_log').text = w.user_text
        /\ IF Last(api_log').valid
           THEN /\ sessions' = [sessions EXCEPT ![w.tm].company = w.user_text]
                /\ Last(chat_display') = RoleMsg(w.user_text)
           ELSE /\ sessions' = sessions
                /\ sessions'[w.tm] = [TestManager EXCEPT !.in_test = TRUE]
                /\ Last(chat_display') = RejectMsg

\* C14 (the next input): the worker of a test input that finds the current
\* session without a company hands its input to the Company Validator.
C14_TreatedAsCompany(w) ==
    (/\ w.target = "test" /\ w.pc = "start"
     /\ w \notin workers'
     /\ sessions[test_manager].company = <<>>)
    => \E w2 \in workers' :
          w2.id = w.id /\ w2.pc = "t_check" /\ w2.tm = test_manager

\* C14: a rejected company leaves the session awaiting a company, any number
\* of times; an accepted one is stored and the role is asked for.
C14_RejectedCompanyChangesNothing ==
    [][\A w \in workers : C14_Checked(w) /\ C14_TreatedAsCompany(w)]_vars

\* C14 witness: a session had two inputs rejected and then one accepted, which
\* is its company.
C14_Witness ==
    \E i \in DOMAIN sessions :
        /\ Len(ChecksOf(i)) = 3
        /\ ~ChecksOf(i)[1].valid
        /\ ~ChecksOf(i)[2].valid
        /\ ChecksOf(i)[3].valid
        /\ sessions[i].company = ChecksOf(i)[3].text
        /\ sessions[i].in_test

\* The workers whose remote call has returned.
Returned == {w \in workers : w.http # NoHttp}

\* A string beginning with 'Error: '.
StartsWithErrorColon(s) == Len(s) >= 2 /\ s[1] = "Error" /\ s[2] = ": "

\* 'Error <status>: ' followed by the raw body.
StatusError(http) == <<"Error", " ", ToString(http.status), ": ">> \o http.raw

\* C15, as claimed: HTTP success is any 2xx status.  With a body of the
\* expected shape call_gemini_api returns its text; on a non-2xx status it
\* returns 'Error <status>: ' and the raw body; on a transport exception or a
\* body of another shape, a string beginning with 'Error: '.
C15_NeverRaises ==
    \A w \in Returned :
        LET success == ~w.http.exc /\ w.http.status \in 200..299
        IN  /\ (success /\ w.http.shape_ok) => w.resp = w.http.text
            /\ (~w.http.exc /\ ~success) => w.resp = StatusError(w.http)
            /\ (w.http.exc \/ (success /\ ~w.http.shape_ok)) =>
                    StartsWithErrorColon(w.resp)

\* C15, amended: the status that counts as success is 200 alone.
C15_Only200IsSuccess ==
    \A w \in Returned :
        LET success == ~w.http.exc /\ w.http.status = HttpOk
        IN  /\ (success /\ w.http.shape_ok) => w.resp = w.http.text
            /\ (~w.http.exc /\ ~success) => w.resp = StatusError(w.http)
            /\ (w.http.exc \/ (success /\ ~w.http.shape_ok)) =>
                    StartsWithErrorColon(w.resp)

\* C15 witness: a worker got the answer to a POST that was answered 201 with
\* a body of the expected shape.
C15_Witness ==
    \E w \in Returned :
        /\ w.http.status = 201
        /\ w.http.shape_ok
        /\ w.resp = StatusError(w.http)

\* The response is the word 'valid', in any case, with nothing but whitespace
\* around it.
SaysValid(response) ==
    \E i \in 1..Len(response) :
        /\ response[i] \in {"valid", "VALID", "Valid"}
        /\ \A j \in 1..Len(response) : j # i => response[j] \in {" ", "\n", "\t"}

C16_Check(w) ==
    (w.pc = "t_check" /\ MovesTo(w, "fin")) =>
        \A w2 \in workers' :
            w2.id = w.id => (Last(api_log').valid <=> SaysValid(w2.resp))

\* C16: gemini_check_company returns true exactly when the remote response is
\* 'valid' once surrounding whitespace is trimmed and case is folded; an Error
\* sentinel, 'INVALID', 'VALID' with more words or an empty response give false.
C16_ValidOnly == [][\A w \in workers : C16_Check(w)]_vars

\* C16 witness: the response ' Valid' with a newline after it was taken as
\* true and the company stored.
C16_Witness ==
    \E w \in workers :
        /\ w.pc = "fin"
        /\ w.resp = <<" ", "Valid", "\n">>
        /\ Last(api_log).fn = "check"
        /\ Last(api_log).valid
        /\ sessions[w.tm].company = w.user_text

\* C17 (state part): no session holds more than 10 answers or has its cursor
\* beyond 10; a session that holds 10 answers has had its evaluation started,
\* and it is the current session only while a worker evaluates it.
C17_Bounded ==
    \A i \in DOMAIN sessions :
        /\ Len(sessions[i].user_answers) <= 2 * QuestionsPerKind
        /\ sessions[i].question_index <= 2 * QuestionsPerKind
        /\ Len(sessions[i].user_answers) = 2 * QuestionsPerKind =>
              /\ EvaluationsOf(i) # {}
              /\ i = test_manager =>
                    \E w \in workers : w.pc = "t_evaluate" /\ w.tm = i

\* C17 (step part): a session that holds 10 answers is never written again.
C17_Terminal ==
    \A i \in DOMAIN sessions :
        Len(sessions[i].user_answers) = 2 * QuestionsPerKind =>
            sessions'[i] = sessions[i]

\* C17: at most 10 answers and a cursor of at most 10 in every session; the
\* session whose 10th answer is stored gets no further input: it is evaluated
\* and discarded.
C17_AtMostTenAnswers == []C17_Bounded /\ [][C17_Terminal]_vars

\* C17 witness: after a session got its 10 answers, with its cursor at 10, a
\* further input went to the session that replaced it.
C17_Witness ==
    /\ sessions[test_manager].company # <<>>
    /\ \E i \in DOMAIN sessions :
          /\ i # test_manager
          /\ Len(sessions[i].user_answers) = 2 * QuestionsPerKind
          /\ sessions[i].question_index = 2 * QuestionsPerKind

\* C18: a step of a test-mode worker leaves alone every session that was
\* constructed after its message was submitted and that the user has started:
\* the step does not write that session (it is not advanced) and, if it is
\* the current session, it stays the current session (it is not discarded).
C18_OwnSession(w) ==
    (w.target = "test" /\ w \notin workers') =>
        \A i \in DOMAIN sessions :
            (i > w.submitted /\ sessions[i].in_test) =>
                /\ sessions'[i] = sessions[i]
                /\ test_manager = i => test_manager' = i

C18_WorkerKeepsToItsSession == [][\A w \in workers : C18_OwnSession(w)]_vars

\* A non-empty, unflagged message is submitted while the current session is
\* in test mode: send_message hands it to the Test Sequencer.
TestInputSubmitted ==
    /\ ~is_processing
    /\ sessions[test_manager].in_test
    /\ \E typed \in Typed :
          /\ Strip(typed) # <<>>
          /\ ~contains_profanity(Strip(typed))
          /\ send_message(typed)

\* C19: submitting a message that goes to the Test Sequencer, and every step
\* of the worker that handles it, leaves the conversation history as it is.
C19_TestInput ==
    /\ TestInputSubmitted => conversation_history' = conversation_history
    /\ \A w \in workers :
          (w.target = "test" /\ w \notin workers') =>
              conversation_history' = conversation_history

C19_TestInputsNotInHistory == [][C19_TestInput]_vars

\* C20: whenever no exit_test is half done, exactly one of Start Test and
\* Exit Test is enabled, and Exit Test is enabled exactly when the current
\* session is in test mode.
C20_ButtonsFollowTestMode ==
    (\A w \in workers : w.pc # "exiting") =>
        /\ start_enabled # exit_enabled
        /\ exit_enabled <=> sessions[test_manager].in_test

====
